---- MODULE Spec2Model ----
(***************************************************************************)
(* RebootReminder: the reboot-requirement lifecycle engine.                *)
(*                                                                         *)
(* Time is counted in seconds.  A Rust Option<T> is a sequence of length   *)
(* 0 (None) or 1 (Some(x)).  A Rust String that the code parses is a       *)
(* sequence of one-character strings; other strings are TLA+ strings.      *)
(***************************************************************************)
EXTENDS Integers, Sequences, FiniteSets, TLC

VARIABLES
    \* ---- detection loop (service/mod.rs, reboot_check_thread) ----
    now,              \* wall clock read by Utc::now()
    last_check,       \* the thread's local `last_check`
    timeframes,       \* config.reboot.timeframes
    db_state,         \* Option: latest row of table reboot_state
    db_sources,       \* rows of table reboot_sources of that state
    db_history,       \* rows of table reboot_history
    cycle,            \* what the most recent loop iteration did, and the
                      \* reminder time saved by the latest cycle that called
                      \* show_notification while that time is still ahead
    \* ---- watchdog thread (watchdog/mod.rs) ----
    wd_cfg,           \* WatchdogConfig handed to the thread
    wd_running,       \* Watchdog::running
    wd_pc,            \* "off", "loop", "gave_up" or "stopped"
    wd_now,           \* Instant::now()
    wd_last_check,    \* the thread's local `last_check`
    restart_attempts, \* the thread's local `restart_attempts`
    wd_since_alive,   \* restart attempts made since the last Ok(true)
    wd_fail_streak,   \* consecutive Ok(false) results followed by a failed restart
    wd_log,           \* what the most recent watchdog iteration did
    \* ---- RebootDetector::check_reboot_required (reboot/detector.rs) ----
    det_methods,      \* config.detection_methods
    det_probes,       \* what each individual check returns
    det_result,       \* the call's return value, None before the call
    \* ---- get_timeframe (reboot/mod.rs); the table is `timeframes` ----
    tf_state,         \* the RebootState argument
    tf_result,        \* the call's return value
    \* ---- a reader of the database (database/mod.rs) ----
    rd_pc,            \* "off", "idle", "row_read" or "done"
    rd_row,           \* the row returned by the reader's first query
    rd_result,        \* what get_reboot_state returned to the reader
    db_commits,       \* every (row, sources) pair a save has committed
    \* ---- NotificationManager::record_interaction (notification/mod.rs) ----
    ia_cfg,           \* system_reboot_config
    ia_db,            \* rows of notification_interactions
    ia_call,          \* the most recent record_interaction call
    \* ---- NotificationManager::show_notification, is_quiet_hours ----
    nt_cfg,           \* NotificationManager::config and tray_manager
    nt_clock,         \* the instant of the call and the local UTC offset
    qh_result,        \* what is_quiet_hours returned
    nt_call,          \* the most recent show_notification call
    nt_db,            \* rows of notifications
    \* ---- run_service and its worker threads (service/mod.rs) ----
    SERVICE_RUNNING,  \* the static flag cleared by the stop handler
    sv_pc,            \* per worker thread: "loop" or "exited"
    sv_main,          \* run_service: "waiting", "join_config_refresh",
                      \* "join_reboot_check" or "returned"
    sv_log,           \* what the most recent worker iteration did
    \* ---- format_timespan and parse_timespan (utils/timespan.rs) ----
    ts_duration,      \* the Duration, in whole seconds
    ts_text,          \* Option: what format_timespan returned
    ts_parsed,        \* Option: what parse_timespan returned for ts_text
    \* ---- the notification manager as the detection loop meets it ----
    show_outcome      \* what a call of show_notification comes to

loopVars == <<now, last_check, timeframes, db_state, db_sources, db_history, cycle>>
wdVars == <<wd_cfg, wd_running, wd_pc, wd_now, wd_last_check, restart_attempts,
            wd_since_alive, wd_fail_streak, wd_log>>

detVars == <<det_methods, det_probes, det_result>>
tfVars == <<tf_state, tf_result>>
perVars == <<rd_pc, rd_row, rd_result, db_commits>>
iaVars == <<ia_cfg, ia_db, ia_call>>
ntVars == <<nt_cfg, nt_clock, qh_result, nt_call, nt_db>>
svVars == <<SERVICE_RUNNING, sv_pc, sv_main, sv_log>>
tsVars == <<ts_duration, ts_text, ts_parsed>>
envVars == <<show_outcome>>

vars == <<loopVars, wdVars, detVars, tfVars, perVars, iaVars, ntVars, svVars, tsVars, envVars>>

nonLoopVars == <<wdVars, detVars, tfVars, perVars, iaVars, ntVars, svVars, tsVars, envVars>>
nonWdVars == <<loopVars, detVars, tfVars, perVars, iaVars, ntVars, svVars, tsVars, envVars>>
nonDetVars == <<loopVars, wdVars, tfVars, perVars, iaVars, ntVars, svVars, tsVars, envVars>>

\* ------------------------------------------------------------------------
\* Option<T>
None == <<>>
Some(x) == <<x>>
IsSome(o) == o # <<>>
UnwrapOr(o, d) == IF o = <<>> THEN d ELSE o[1]

\* ------------------------------------------------------------------------
\* Bounds of the model
MaxTime == 129600
MaxSkew == 1
MaxRestartAttempts == 3
MaxWdTime == 12
MaxTierHour == 3
MaxElapsedHours == 4
MaxSaves == 3
MaxInteractions == 2
MaxNotifications == 2
MaxTimespanHours == 3

\* Durations the loop's sleep is observed to last (thread::sleep(60 s) is a
\* lower bound; the machine may be suspended for hours).
SleepSteps == {6 * 3600, 24 * 3600}

\* ------------------------------------------------------------------------
\* utils/timespan.rs
IsDigit(c) == c \in {"0", "1", "2", "3", "4", "5", "6", "7", "8", "9"}

DigitValue(c) ==
    CASE c = "0" -> 0 [] c = "1" -> 1 [] c = "2" -> 2 [] c = "3" -> 3
      [] c = "4" -> 4 [] c = "5" -> 5 [] c = "6" -> 6 [] c = "7" -> 7
      [] c = "8" -> 8 [] c = "9" -> 9

RECURSIVE DecimalValue(_)
DecimalValue(s) ==
    IF s = <<>> THEN 0
    ELSE 10 * DecimalValue(SubSeq(s, 1, Len(s) - 1)) + DigitValue(s[Len(s)])

\* current_number.parse::<u64>(): an empty string is an error.  (The other
\* error, a value above u64::MAX, needs more digits than any string drawn here.)
ParseU64(s) ==
    IF s = <<>> THEN [ok |-> FALSE, val |-> 0]
    ELSE [ok |-> TRUE, val |-> DecimalValue(s)]

UnitSeconds(c) ==
    IF c \in {"h", "H"} THEN 3600
    ELSE IF c \in {"m", "M"} THEN 60
    ELSE IF c \in {"s", "S"} THEN 1
    ELSE 0

TimespanErr == [ok |-> FALSE, secs |-> 0]

RECURSIVE ParseTimespanFrom(_, _, _, _)
ParseTimespanFrom(s, i, total_seconds, current_number) ==
    IF i > Len(s) THEN
        IF current_number # <<>> THEN
            IF ParseU64(current_number).ok
            THEN [ok |-> TRUE, secs |-> total_seconds + ParseU64(current_number).val]
            ELSE TimespanErr
        ELSE [ok |-> TRUE, secs |-> total_seconds]
    ELSE IF IsDigit(s[i]) THEN
        ParseTimespanFrom(s, i + 1, total_seconds, Append(current_number, s[i]))
    ELSE IF UnitSeconds(s[i]) # 0 THEN
        IF ParseU64(current_number).ok
        THEN ParseTimespanFrom(s, i + 1,
                 total_seconds + ParseU64(current_number).val * UnitSeconds(s[i]), <<>>)
        ELSE TimespanErr
    ELSE TimespanErr

parse_timespan(s) == ParseTimespanFrom(s, 1, 0, <<>>)

\* ------------------------------------------------------------------------
\* reboot/detector.rs
Checks == <<"windows_update", "sccm", "registry", "pending_file_operations">>
CheckNames == {Checks[i] : i \in 1..Len(Checks)}
ProbeResults == {"required", "not_required", "error"}

RebootSource_Backdated(name, t) == [name |-> name, detected_at |-> 0]

\* RebootSource::new: the evidence record of one check, stamped at creation.
RebootSource(name, t) == [name |-> name, detected_at |-> t]

\* One `if self.config.detection_methods.X { match self.check_X() ... }` block.
CheckStep_ErrorVotes(acc, name, methods, probes, t) ==
    IF methods[name] /\ probes[name] \in {"required", "error"}
    THEN [is_required |-> TRUE, sources |-> Append(acc.sources, RebootSource(name, t))]
    ELSE acc

CheckStep(acc, name, methods, probes, t) ==
    IF methods[name] /\ probes[name] = "required"
    THEN [is_required |-> TRUE,
          sources |-> Append(acc.sources, RebootSource(name, t))]
    ELSE acc

RECURSIVE RunChecks(_, _, _, _, _)
RunChecks(acc, i, methods, probes, t) ==
    IF i > Len(Checks) THEN acc
    ELSE RunChecks(CheckStep(acc, Checks[i], methods, probes, t), i + 1, methods, probes, t)

check_reboot_required_IgnoreToggles(methods, probes, t) ==
    LET r == RunChecks([is_required |-> FALSE, sources |-> <<>>], 1,
                       [n \in CheckNames |-> TRUE], probes, t)
    IN  [ok |-> TRUE, required |-> r.is_required, sources |-> r.sources]

check_reboot_required(methods, probes, t) ==
    LET r == RunChecks([is_required |-> FALSE, sources |-> <<>>], 1, methods, probes, t)
    IN  [ok |-> TRUE, required |-> r.is_required, sources |-> r.sources]

\* ------------------------------------------------------------------------
\* reboot/mod.rs
RECURSIVE MinDetectedAt(_)
MinDetectedAt(sources) ==
    IF Len(sources) = 1 THEN sources[1].detected_at
    ELSE LET m == MinDetectedAt(Tail(sources))
         IN  IF sources[1].detected_at <= m THEN sources[1].detected_at ELSE m

\* chrono Duration::num_hours(): truncation toward zero.
NumHours(secs) == IF secs >= 0 THEN secs \div 3600 ELSE -((-secs) \div 3600)

\* `duration.num_hours() as u32`.  The clock never runs backwards here, so
\* the duration is never negative and the cast keeps the value.
HoursSinceRequired(sources, clock) ==
    IF sources = <<>> THEN 0
    ELSE NumHours(clock - MinDetectedAt(sources))

\* `hours < timeframe.max_hours.unwrap_or(u32::MAX)`: every hour count that
\* fits the clock of this model is below u32::MAX.
BelowMax_Inclusive(hours, max_hours) ==
    IF IsSome(max_hours) THEN hours <= max_hours[1] ELSE TRUE

BelowMax(hours, max_hours) ==
    IF IsSome(max_hours) THEN hours < max_hours[1] ELSE TRUE

\* `hours_since_required >= timeframe.min_hours` reads the legacy field as a
\* number, so every table drawn here carries it.
TierMatches(tf, hours) ==
    hours >= tf.min_hours[1] /\ BelowMax(hours, tf.max_hours)

RECURSIVE FirstMatch(_, _, _)
FirstMatch(tfs, i, hours) ==
    IF i > Len(tfs) THEN 0
    ELSE IF TierMatches(tfs[i], hours) THEN i
    ELSE FirstMatch(tfs, i + 1, hours)

get_timeframe_NoFallback(tfs, state, clock) ==
    IF ~state.reboot_required THEN None
    ELSE LET hours == HoursSinceRequired(state.sources, clock)
             i == FirstMatch(tfs, 1, hours)
         IN  IF i # 0 THEN Some(i) ELSE None

\* The result is the index of the tier the returned reference points to.
get_timeframe(tfs, state, clock) ==
    IF ~state.reboot_required THEN None
    ELSE LET hours == HoursSinceRequired(state.sources, clock)
             i == FirstMatch(tfs, 1, hours)
         IN  IF i # 0 THEN Some(i)
             ELSE IF Len(tfs) > 0 THEN Some(Len(tfs))
             ELSE None

DefaultReminderHours == 1

LegacyReminderTime(tf, t) ==
    IF IsSome(tf.reminder_interval_hours) THEN t + tf.reminder_interval_hours[1] * 3600
    ELSE IF IsSome(tf.reminder_interval_minutes) THEN t + tf.reminder_interval_minutes[1] * 60
    ELSE t + DefaultReminderHours * 3600

calculate_next_reminder_time(tf, t) ==
    IF IsSome(tf.reminder_interval) /\ parse_timespan(tf.reminder_interval[1]).ok
    THEN t + parse_timespan(tf.reminder_interval[1]).secs
    ELSE LegacyReminderTime(tf, t)

\* ------------------------------------------------------------------------
\* Configuration the detection loop runs with (config/models.rs)
Tier(min_hours, max_hours, min_timespan, interval, hours, minutes, deferrals) ==
    [min_hours |-> min_hours, max_hours |-> max_hours, min_timespan |-> min_timespan,
     reminder_interval |-> interval, reminder_interval_hours |-> hours,
     reminder_interval_minutes |-> minutes, deferrals |-> deferrals]

\* {min: 24h, max: 48h, reminderInterval: "4h", deferrals: ["1h", "4h"]}
Tier24to48 ==
    Tier(Some(24), Some(48), Some(<<"2", "4", "h">>), Some(<<"4", "h">>), None, None,
         <<"1h", "4h">>)

TableSingle == <<Tier24to48>>

TableEscalating ==
    << Tier(Some(0), Some(24), None, None, Some(12), None, <<"1h", "4h", "8h">>),
       Tier24to48,
       Tier(Some(48), None, None, Some(<<"3", "0", "m">>), None, Some(30), <<"30m">>) >>

\* One tier checked every 6 hours that reminds once a day.
TableDaily ==
    << Tier(Some(6), None, Some(<<"6", "h">>), None, Some(24), None, <<"1h">>) >>

TableLegacy ==
    << Tier(Some(6), Some(48), None, None, Some(4), None, <<"1h", "4h">>),
       Tier(Some(48), None, None, None, None, None, <<"1h">>) >>

LoopTables == {TableSingle, TableEscalating, TableLegacy}

\* config.reboot.detection_methods of the running service
LoopDetectionMethods ==
    [n \in CheckNames |-> n \in {"windows_update", "registry"}]

\* What the probes are observed to answer while the service runs.
LoopProbes ==
    {p \in [CheckNames -> ProbeResults] :
        /\ p["windows_update"] \in {"required", "not_required"}
        /\ p["registry"] \in {"required", "error"}
        /\ p["sccm"] = "required"
        /\ p["pending_file_operations"] = "error"}

\* ------------------------------------------------------------------------
\* database/models.rs, database/mod.rs
RebootStateNew_Postponed(reboot_required, t) ==
    [reboot_required |-> reboot_required,
     last_check_time |-> t,
     reboot_required_since |-> IF reboot_required THEN Some(t) ELSE None,
     postpone_count |-> 1,
     next_reminder_time |-> None,
     sources |-> <<>>,
     created_at |-> t,
     updated_at |-> t]

RebootStateNew(reboot_required, t) ==
    [reboot_required |-> reboot_required,
     last_check_time |-> t,
     reboot_required_since |-> IF reboot_required THEN Some(t) ELSE None,
     postpone_count |-> 0,
     next_reminder_time |-> None,
     sources |-> <<>>,
     created_at |-> t,
     updated_at |-> t]

\* The row of reboot_state, then the rows of reboot_sources of that state.
get_reboot_state(row, source_rows) ==
    IF row = None THEN None
    ELSE Some([row[1] EXCEPT !.sources = source_rows])

\* One transaction: the row is replaced, the old source rows are deleted and
\* the new ones inserted, then the commit; an error rolls everything back.
save_reboot_state(state, ok) ==
    IF ok
    THEN /\ db_state' = Some([state EXCEPT !.sources = <<>>])
         /\ db_sources' = state.sources
    ELSE UNCHANGED <<db_state, db_sources>>

\* ------------------------------------------------------------------------
\* service/mod.rs: reboot_check_thread
DefaultMinHours == 24

CadenceMinHours(tfs) ==
    IF IsSome(tfs[1].min_timespan) /\ parse_timespan(tfs[1].min_timespan[1]).ok
    THEN parse_timespan(tfs[1].min_timespan[1]).secs \div 3600
    ELSE UnwrapOr(tfs[1].min_hours, DefaultMinHours)

PassDue_EveryIteration == TRUE

\* `if now - last_check >= Duration::minutes(min_hours * 60)`
PassDue == now - last_check >= CadenceMinHours(timeframes) * 60 * 60

StampRequiredSince_NeverCleared(state, required, t) ==
    IF ~state.reboot_required /\ required THEN Some(t)
    ELSE state.reboot_required_since

\* `if !new_state.reboot_required && required {..} else if .. && !required {..}`
StampRequiredSince(state, required, t) ==
    IF ~state.reboot_required /\ required THEN Some(t)
    ELSE IF state.reboot_required /\ ~required THEN None
    ELSE state.reboot_required_since

\* The interval computed inline by the loop.
LoopNextReminderTime_Backwards(tf, t) ==
    IF IsSome(tf.reminder_interval_hours) THEN t - tf.reminder_interval_hours[1] * 3600
    ELSE IF IsSome(tf.reminder_interval_minutes) THEN t - tf.reminder_interval_minutes[1] * 60
    ELSE t - 1 * 3600

LoopNextReminderTime(tf, t) ==
    IF IsSome(tf.reminder_interval_hours) THEN t + tf.reminder_interval_hours[1] * 3600
    ELSE IF IsSome(tf.reminder_interval_minutes) THEN t + tf.reminder_interval_minutes[1] * 60
    ELSE t + 1 * 3600

ReminderDue_WheneverRequired(state, required, t) == required

\* `required && now >= state.next_reminder_time.unwrap_or(now)`
ReminderDue(state, required, t) ==
    required /\ t >= UnwrapOr(state.next_reminder_time, t)

UpdatedState_MergesSources(state, required, sources, t) ==
    [state EXCEPT !.reboot_required_since = StampRequiredSince(state, required, t),
                  !.reboot_required = required,
                  !.last_check_time = t,
                  !.updated_at = t,
                  !.sources = state.sources \o sources]

\* new_state before the reminder branch
UpdatedState(state, required, sources, t) ==
    [state EXCEPT !.reboot_required_since = StampRequiredSince(state, required, t),
                  !.reboot_required = required,
                  !.last_check_time = t,
                  !.updated_at = t,
                  !.sources = sources]

NewState_KeepsReminder(state, required, sources, t, tfs, clock) ==
    LET ns == UpdatedState(state, required, sources, t)
        tier == get_timeframe(tfs, ns, clock)
    IN  IF ReminderDue(state, required, t) /\ IsSome(tier)
        THEN [ns EXCEPT !.next_reminder_time = Some(LoopNextReminderTime(tfs[tier[1]], t))]
        ELSE ns

\* new_state as handed to save_reboot_state
NewState(state, required, sources, t, tfs, clock) ==
    LET ns == UpdatedState(state, required, sources, t)
        tier == get_timeframe(tfs, ns, clock)
    IN  IF ReminderDue(state, required, t) THEN
            IF IsSome(tier)
            THEN [ns EXCEPT !.next_reminder_time = Some(LoopNextReminderTime(tfs[tier[1]], t))]
            ELSE ns
        ELSE IF ~required THEN [ns EXCEPT !.next_reminder_time = None]
        ELSE ns

\* A saved reminder time, remembered until the clock reaches it.
StillAhead(promised, t) ==
    IF IsSome(promised) /\ promised[1] > t THEN promised ELSE None

IdleCycle(kind) ==
    [kind |-> kind, at |-> now, created |-> FALSE, was_required |-> FALSE,
     required |-> FALSE, tier |-> None, notified |-> FALSE, shown |-> "none",
     promised |-> None, hours |-> 0, deferrals |-> None, saved |-> FALSE,
     history_added |-> 0, evidence |-> <<>>, state_sources |-> <<>>]

\* An iteration before the cadence is reached: nothing but the sleep.
CycleNotDue ==
    /\ ~PassDue
    /\ \E d \in SleepSteps :
          /\ now + d <= MaxTime
          /\ now' = now + d
          /\ cycle' = [IdleCycle("not_due") EXCEPT
                           !.promised = StillAhead(cycle.promised, now + d)]
    /\ UNCHANGED <<last_check, timeframes, db_state, db_sources, db_history>>
    /\ UNCHANGED nonLoopVars

\* get_reboot_state fails: `continue`, which skips the sleep and leaves
\* last_check alone.
CycleReadFailed ==
    /\ PassDue
    /\ cycle' = [IdleCycle("read_failed") EXCEPT !.promised = cycle.promised]
    /\ UNCHANGED <<now, last_check, timeframes, db_state, db_sources, db_history>>
    /\ UNCHANGED nonLoopVars

\* The state the pass starts from: the stored one, or RebootState::new.
PassState(required, t_new) ==
    LET read == get_reboot_state(db_state, db_sources)
    IN  IF IsSome(read) THEN read[1] ELSE RebootStateNew(required, t_new)

\* What a call of show_notification comes to: the notification reached a
\* channel, was suppressed (quiet hours, no session) with Ok(()), or the call
\* returned Err, which the loop only logs.
ShowOutcomes == {"displayed", "suppressed", "error"}

AfterNotification_KeepsDueUnlessShown(state, ns, called, shown) ==
    IF called /\ shown = "displayed" THEN ns
    ELSE [ns EXCEPT !.next_reminder_time = state.next_reminder_time]

\* new_state after the block that locks the notification manager and calls
\* show_notification: the block reads new_state and assigns nothing to it,
\* whatever the lock and the call come to.
AfterNotification(state, ns, called, shown) == ns

\* A detection pass.  now + skew is the clock while the probes run and the
\* state is created, lock_ok whether notification_manager.lock() succeeds,
\* save_ok whether save_reboot_state does.
CyclePass ==
    /\ PassDue
    /\ UNCHANGED <<timeframes, db_history>>
    /\ UNCHANGED nonLoopVars
    /\ \E probes \in LoopProbes, skew \in {0, MaxSkew} :
          LET det == check_reboot_required(LoopDetectionMethods, probes, now + skew)
              state == PassState(det.required, now + skew)
              due == ReminderDue(state, det.required, now)
              ns == NewState(state, det.required, det.sources, now, timeframes, now + skew)
              tier == IF due
                      THEN get_timeframe(timeframes,
                               UpdatedState(state, det.required, det.sources, now), now + skew)
                      ELSE None
          IN  \E save_ok \in BOOLEAN, lock_ok \in BOOLEAN, d \in SleepSteps :
                LET called == due /\ IsSome(tier) /\ lock_ok
                IN  /\ now + d <= MaxTime
                    /\ (~due \/ tier = None) => lock_ok
                    /\ now' = now + d
                    /\ last_check' = now
                    /\ save_reboot_state(
                           AfterNotification(state, ns, called, show_outcome), save_ok)
                    /\ cycle' =
                         [kind |-> "pass", at |-> now, created |-> db_state = None,
                          was_required |-> state.reboot_required,
                          required |-> det.required,
                          tier |-> tier, notified |-> called,
                          hours |-> IF due
                                    THEN HoursSinceRequired(det.sources, now + skew)
                                    ELSE 0,
                          shown |-> IF called THEN show_outcome ELSE "none",
                          promised |-> StillAhead(IF called /\ save_ok
                                                  THEN ns.next_reminder_time
                                                  ELSE cycle.promised, now + d),
                          deferrals |-> IF called THEN Some(timeframes[tier[1]].deferrals)
                                        ELSE None,
                          saved |-> save_ok,
                          history_added |-> Len(db_history') - Len(db_history),
                          evidence |-> det.sources, state_sources |-> ns.sources]

DetectionCycle == CycleNotDue \/ CycleReadFailed \/ CyclePass

\* The notification manager shows what it is asked to show.
EnvIdle == show_outcome = "displayed"

\* Quiet hours, the absence of a session or a failing channel may stand
\* between the loop and the user.
EnvInit == show_outcome \in ShowOutcomes

LoopInit ==
    /\ now = 0
    /\ last_check = 0
    /\ timeframes \in LoopTables
    /\ db_state = None
    /\ db_sources = <<>>
    /\ db_history = <<>>
    /\ cycle = IdleCycle("init")

\* The detection loop at rest, for the specifications of the other components.
LoopIdle ==
    /\ now = 0
    /\ last_check = 0
    /\ timeframes = TableSingle
    /\ db_state = None
    /\ db_sources = <<>>
    /\ db_history = <<>>
    /\ cycle = IdleCycle("init")

\* ------------------------------------------------------------------------
\* watchdog/mod.rs: Watchdog::start, the watchdog thread, Watchdog::stop
WdCheckIntervals == {2}
WdRestartDelays == {1}

\* Extra time a sleep is observed to last (the machine was suspended).
WdOversleep == {0, 5}

LivenessResults == {"alive", "dead", "error"}

\* watchdog/power_events.rs: enum PowerEvent
PowerEvents == {"Resume", "Suspend", "DisplayOn", "DisplayOff", "Unknown"}

\* What the power monitor has queued when an iteration starts.
PendingEvents == PowerEvents \cup {"none"}

\* The power checker a caller may put in a WatchdogConfig.
PowerCheckers == {None, Some("checker")}

\* `impl Clone for WatchdogConfig`: every field is copied but the power
\* checker, which is `None` in the copy.
WatchdogConfigClone(config) == [config EXCEPT !.power_checker = None]

\* `if let Some(power_checker) = &config.power_checker` and then
\* PowerEventChecker::check_events (`try_recv`): the queued event, if the
\* thread's configuration holds a checker at all.
check_events(power_checker, pending) ==
    IF IsSome(power_checker) THEN pending ELSE "none"

\* `PowerEvent::Resume` and `PowerEvent::DisplayOn` set force_check; the
\* other events are only logged.
EventForcesCheck(event) == event \in {"Resume", "DisplayOn"}

WdLog(at, streak, checked, result, restarted, restart_ok, elapsed, pending) ==
    [at |-> at, prev_streak |-> streak, checked |-> checked, result |-> result,
     restarted |-> restarted, restart_ok |-> restart_ok,
     elapsed |-> elapsed, event |-> pending]

\* `elapsed.as_secs() > config.check_interval_seconds * 2`, or a polled
\* power event that forces a check.
ForceCheck(elapsed, pending) ==
    \/ elapsed > wd_cfg.check_interval_seconds * 2
    \/ EventForcesCheck(check_events(wd_cfg.power_checker, pending))

CheckNow(elapsed, pending) ==
    elapsed >= wd_cfg.check_interval_seconds \/ ForceCheck(elapsed, pending)

GiveUp_OffByOne(attempts, max) == attempts > max

\* `if restart_attempts >= config.max_restart_attempts { ...; break; }`
GiveUp(attempts, max) == attempts >= max

AttemptsAfterRestart_OnlyOnSuccess(attempts, restart_ok) ==
    IF restart_ok THEN attempts + 1 ELSE attempts

\* `restart_attempts += 1` in both arms of `match restart_service(..)`
AttemptsAfterRestart(attempts, restart_ok) == attempts + 1

AttemptsAfterError_Counted(attempts) == attempts + 1

\* `Err(e) => { error!(..) }`: the arm only logs.
AttemptsAfterError(attempts) == attempts

AttemptsAfterCheck_NoReset(attempts, result) == attempts

\* `Ok(true) => restart_attempts = 0`; the Err arm leaves the counter alone.
AttemptsAfterCheck(attempts, result) ==
    IF result = "alive" THEN 0 ELSE AttemptsAfterError(attempts)

\* Watchdog::start with config.enabled: the flag is set and the thread spawned.
WdInit ==
    /\ \E config \in [check_interval_seconds : WdCheckIntervals,
                       restart_delay_seconds : WdRestartDelays,
                       max_restart_attempts : 0..MaxRestartAttempts,
                       power_checker : PowerCheckers] :
          wd_cfg = WatchdogConfigClone(config)
    /\ wd_running = TRUE
    /\ wd_pc = "loop"
    /\ wd_now = 0
    /\ wd_last_check = 0
    /\ restart_attempts = 0
    /\ wd_since_alive = 0
    /\ wd_fail_streak = 0
    /\ wd_log = WdLog(0, 0, FALSE, "none", FALSE, FALSE, 0, "none")

\* The watchdog not started, for the specifications of the other components.
WdIdle ==
    /\ wd_cfg = [check_interval_seconds |-> 2, restart_delay_seconds |-> 1,
                 max_restart_attempts |-> 0, power_checker |-> None]
    /\ wd_running = FALSE
    /\ wd_pc = "off"
    /\ wd_now = 0
    /\ wd_last_check = 0
    /\ restart_attempts = 0
    /\ wd_since_alive = 0
    /\ wd_fail_streak = 0
    /\ wd_log = WdLog(0, 0, FALSE, "none", FALSE, FALSE, 0, "none")

\* `while running.load(..)` finds the flag cleared.
WdObserveStop ==
    /\ wd_pc = "loop"
    /\ ~wd_running
    /\ wd_pc' = "stopped"
    /\ UNCHANGED <<wd_cfg, wd_running, wd_now, wd_last_check, restart_attempts,
                   wd_since_alive, wd_fail_streak, wd_log>>
    /\ UNCHANGED nonWdVars

\* An iteration in which no check is due: only the 1 s sleep.
WdIdleIteration ==
    /\ wd_pc = "loop"
    /\ wd_running
    /\ \E pending \in PendingEvents, extra \in WdOversleep :
          /\ ~CheckNow(wd_now - wd_last_check, pending)
          /\ wd_now + 1 + extra <= MaxWdTime
          /\ wd_now' = wd_now + 1 + extra
          /\ wd_log' = WdLog(wd_now, wd_fail_streak, FALSE, "none", FALSE, FALSE,
                             wd_now - wd_last_check, pending)
    /\ UNCHANGED <<wd_cfg, wd_running, wd_pc, wd_last_check, restart_attempts,
                   wd_since_alive, wd_fail_streak>>
    /\ UNCHANGED nonWdVars

\* An iteration that queries the service and finds it running, or cannot tell.
WdCheckIteration ==
    /\ wd_pc = "loop"
    /\ wd_running
    /\ \E pending \in PendingEvents, result \in {"alive", "error"},
          extra \in WdOversleep :
          /\ CheckNow(wd_now - wd_last_check, pending)
          /\ wd_now + 1 + extra <= MaxWdTime
          /\ wd_now' = wd_now + 1 + extra
          /\ restart_attempts' = AttemptsAfterCheck(restart_attempts, result)
          /\ wd_since_alive' = IF result = "alive" THEN 0 ELSE wd_since_alive
          /\ wd_log' = WdLog(wd_now, wd_fail_streak, TRUE, result, FALSE, FALSE,
                             wd_now - wd_last_check, pending)
    /\ wd_fail_streak' = 0
    /\ wd_last_check' = wd_now
    /\ UNCHANGED <<wd_cfg, wd_running, wd_pc>>
    /\ UNCHANGED nonWdVars

\* An iteration that finds the service not running and restarts it.
WdRestartIteration ==
    /\ wd_pc = "loop"
    /\ wd_running
    /\ ~GiveUp(restart_attempts, wd_cfg.max_restart_attempts)
    /\ \E pending \in PendingEvents, restart_ok \in BOOLEAN, extra \in WdOversleep :
          /\ CheckNow(wd_now - wd_last_check, pending)
          /\ wd_now + wd_cfg.restart_delay_seconds + 1 + extra <= MaxWdTime
          /\ wd_now' = wd_now + wd_cfg.restart_delay_seconds + 1 + extra
          /\ restart_attempts' = AttemptsAfterRestart(restart_attempts, restart_ok)
          /\ wd_fail_streak' = IF restart_ok THEN 0 ELSE wd_fail_streak + 1
          /\ wd_log' = WdLog(wd_now, wd_fail_streak, TRUE, "dead", TRUE, restart_ok,
                             wd_now - wd_last_check, pending)
    /\ wd_since_alive' = wd_since_alive + 1
    /\ wd_last_check' = wd_now
    /\ UNCHANGED <<wd_cfg, wd_running, wd_pc>>
    /\ UNCHANGED nonWdVars

\* An iteration that finds the service not running with the attempts used
\* up: `break`.
WdGiveUpIteration ==
    /\ wd_pc = "loop"
    /\ wd_running
    /\ GiveUp(restart_attempts, wd_cfg.max_restart_attempts)
    /\ \E pending \in PendingEvents :
          /\ CheckNow(wd_now - wd_last_check, pending)
          /\ wd_log' = WdLog(wd_now, wd_fail_streak, TRUE, "dead", FALSE, FALSE,
                             wd_now - wd_last_check, pending)
    /\ wd_pc' = "gave_up"
    /\ UNCHANGED <<wd_cfg, wd_running, wd_now, wd_last_check, restart_attempts,
                   wd_since_alive, wd_fail_streak>>
    /\ UNCHANGED nonWdVars

\* Watchdog::stop
WdStop ==
    /\ wd_running
    /\ wd_running' = FALSE
    /\ UNCHANGED <<wd_cfg, wd_pc, wd_now, wd_last_check, restart_attempts,
                   wd_since_alive, wd_fail_streak, wd_log>>
    /\ UNCHANGED nonWdVars

\* ------------------------------------------------------------------------
\* reboot/detector.rs: one call of check_reboot_required
DetInit ==
    /\ det_methods \in [CheckNames -> BOOLEAN]
    /\ det_probes \in [CheckNames -> ProbeResults]
    /\ det_result = None

DetIdle ==
    /\ det_methods = LoopDetectionMethods
    /\ det_probes = [n \in CheckNames |-> "not_required"]
    /\ det_result = None

DetectorCall ==
    /\ det_result = None
    /\ det_result' = Some(check_reboot_required(det_methods, det_probes, 0))
    /\ UNCHANGED <<det_methods, det_probes>>
    /\ UNCHANGED nonDetVars

\* ------------------------------------------------------------------------
\* reboot/mod.rs: one call of get_timeframe
\* config/mod.rs validate_config: every tier has min < max.
TierBounds ==
    {b \in [min : 0..MaxTierHour, max : {None} \cup {Some(m) : m \in 1..MaxTierHour}] :
        IsSome(b.max) => b.min < b.max[1]}

BoundedTier(b) == Tier(Some(b.min), b.max, None, Some(<<"1", "h">>), None, None, <<"1h">>)

TimeframeTables ==
    {<<BoundedTier(b)>> : b \in TierBounds}
        \cup {<<BoundedTier(b1), BoundedTier(b2)>> : b1 \in TierBounds, b2 \in TierBounds}

\* The evidence lists of the states handed to get_timeframe: none, one source,
\* or two sources of which the second is the older.
TimeframeSources == {<<>>, <<RebootSource("registry", 0)>>,
                     <<RebootSource("windows_update", 1800), RebootSource("registry", 0)>>}

TimeframeClocks == {h * 3600 + off : h \in 0..MaxElapsedHours, off \in {0, 3599}}

TfInit ==
    /\ \E required \in BOOLEAN, sources \in TimeframeSources :
          tf_state = [RebootStateNew(required, 0) EXCEPT !.sources = sources]
    /\ tf_result = [called |-> FALSE, tier |-> None]

TfIdle ==
    /\ tf_state = RebootStateNew(FALSE, 0)
    /\ tf_result = [called |-> FALSE, tier |-> None]

TimeframeInputs ==
    /\ now \in TimeframeClocks
    /\ last_check = 0
    /\ timeframes \in TimeframeTables
    /\ db_state = None
    /\ db_sources = <<>>
    /\ db_history = <<>>
    /\ cycle = IdleCycle("init")
    /\ TfInit

TimeframeCall ==
    /\ ~tf_result.called
    /\ tf_result' = [called |-> TRUE, tier |-> get_timeframe(timeframes, tf_state, now)]
    /\ UNCHANGED <<loopVars, tf_state>>
    /\ UNCHANGED <<wdVars, detVars, perVars, iaVars, ntVars, svVars, tsVars, envVars>>

\* ------------------------------------------------------------------------
\* database/mod.rs: get_reboot_state on one pooled connection while another
\* connection saves
LoopSleepSeconds == 60

PerInit ==
    /\ rd_pc = "idle"
    /\ rd_row = None
    /\ rd_result = None
    /\ db_commits = {}

PerIdle ==
    /\ rd_pc = "off"
    /\ rd_row = None
    /\ rd_result = None
    /\ db_commits = {}

\* A table whose first tier starts at 0 hours makes every loop iteration a
\* detection pass.
PersistStart ==
    /\ now = 0
    /\ last_check = 0
    /\ timeframes = TableEscalating
    /\ db_state = None
    /\ db_sources = <<>>
    /\ db_history = <<>>
    /\ cycle = IdleCycle("init")
    /\ PerInit

\* The database effect of a detection pass: read the state, update it, save
\* it in one transaction.  db_commits records what the commit made current.
WriterPass ==
    /\ now < MaxSaves * LoopSleepSeconds
    /\ \E probes \in LoopProbes, save_ok \in BOOLEAN :
          LET det == check_reboot_required(LoopDetectionMethods, probes, now)
              state == PassState(det.required, now)
              ns == NewState(state, det.required, det.sources, now, timeframes, now)
          IN  /\ save_reboot_state(ns, save_ok)
              /\ db_commits' = IF save_ok THEN db_commits \cup {ns} ELSE db_commits
    /\ now' = now + LoopSleepSeconds
    /\ UNCHANGED <<last_check, timeframes, db_history, cycle>>
    /\ UNCHANGED <<rd_pc, rd_row, rd_result>>
    /\ UNCHANGED <<wdVars, detVars, tfVars, iaVars, ntVars, svVars, tsVars, envVars>>

\* get_reboot_state, first statement: the newest row of reboot_state.
ReadRow ==
    /\ rd_pc = "idle"
    /\ rd_row' = db_state
    /\ rd_pc' = IF db_state = None THEN "done" ELSE "row_read"
    /\ rd_result' = None
    /\ UNCHANGED <<loopVars, db_commits>>
    /\ UNCHANGED <<wdVars, detVars, tfVars, iaVars, ntVars, svVars, tsVars, envVars>>

\* get_reboot_state, second statement: the rows of reboot_sources that
\* belong to the row read before.
ReadSources ==
    /\ rd_pc = "row_read"
    /\ rd_result' = get_reboot_state(rd_row, db_sources)
    /\ rd_pc' = "done"
    /\ UNCHANGED <<loopVars, rd_row, db_commits>>
    /\ UNCHANGED <<wdVars, detVars, tfVars, iaVars, ntVars, svVars, tsVars, envVars>>

PersistNext == WriterPass \/ ReadRow \/ ReadSources

\* ------------------------------------------------------------------------
\* notification/mod.rs record_interaction, handle_reboot_action;
\* reboot/system.rs reboot_system
RebootPrefix == <<"r", "e", "b", "o", "o", "t", ":">>

StartsWith(s, prefix) == Len(s) >= Len(prefix) /\ SubSeq(s, 1, Len(prefix)) = prefix

RECURSIVE SplitCount(_, _)
\* `action.split(':').collect().len()`
SplitCount(s, sep) ==
    IF s = <<>> THEN 1
    ELSE (IF s[1] = sep THEN 1 ELSE 0) + SplitCount(Tail(s), sep)

InteractionActions ==
    { <<"r", "e", "b", "o", "o", "t", ":", "n", "o", "w">>,
      <<"r", "e", "b", "o", "o", "t">>,
      <<"d", "e", "f", "e", "r", ":", "1", "h">>,
      <<"d", "i", "s", "m", "i", "s", "s">> }

CountdownChoices == {0, 2}

\* `Command::new("shutdown")..output()`: the process could not be started,
\* or it ran and exited with status 0, or it ran and exited with an error.
ShutdownResults == {"spawn_failed", "exit_ok", "exit_failed"}

\* What the user and the OS answer during one call.
Answers == [persist_ok : BOOLEAN, confirmed : BOOLEAN, api_ok : BOOLEAN,
            shutdown : ShutdownResults]

Outcome(ok, effects) == [ok |-> ok, effects |-> effects]

reboot_system(cfg, ans) ==
    LET dialog == IF cfg.show_confirmation THEN <<"confirmation_dialog">> ELSE <<>>
        countdown == IF cfg.countdown_seconds > 0 THEN <<"countdown">> ELSE <<>>
    IN  IF cfg.show_confirmation /\ ~ans.confirmed
        THEN [ok |-> TRUE, confirmed |-> FALSE, effects |-> dialog]
        ELSE IF ans.api_ok
        THEN [ok |-> TRUE, confirmed |-> TRUE,
              effects |-> dialog \o countdown \o <<"ExitWindowsEx">>]
        ELSE [ok |-> ans.shutdown # "spawn_failed",
              confirmed |-> ans.shutdown # "spawn_failed",
              effects |-> dialog \o countdown \o <<"ExitWindowsEx", "shutdown.exe">>]

handle_reboot_action(action, cfg, ans) ==
    IF SplitCount(action, ":") < 2 THEN Outcome(FALSE, <<>>)
    ELSE IF ~cfg.enabled THEN Outcome(FALSE, <<>>)
    ELSE LET r == reboot_system(cfg, ans)
         IN  Outcome(r.ok /\ r.confirmed, <<"reboot_system">> \o r.effects)

\* add_notification_interaction as one effect of the call
Persist(ans) == IF ans.persist_ok THEN <<"persisted">> ELSE <<"persist_failed">>

record_interaction_RebootFirst(action, cfg, ans) ==
    IF StartsWith(action, RebootPrefix)
    THEN LET h == handle_reboot_action(action, cfg, ans)
         IN  Outcome(h.ok /\ ans.persist_ok, h.effects \o Persist(ans))
    ELSE Outcome(ans.persist_ok, Persist(ans))

record_interaction(action, cfg, ans) ==
    IF StartsWith(action, RebootPrefix)
    THEN IF ~ans.persist_ok THEN Outcome(FALSE, Persist(ans))
         ELSE LET h == handle_reboot_action(action, cfg, ans)
              IN  Outcome(h.ok, Persist(ans) \o h.effects)
    ELSE Outcome(ans.persist_ok, Persist(ans))

\* Whether the OS accepted a restart request made by these effects.
Rebooting(effects, ans) ==
    /\ \E i \in 1..Len(effects) : effects[i] = "ExitWindowsEx"
    /\ \/ ans.api_ok
       \/ /\ \E i \in 1..Len(effects) : effects[i] = "shutdown.exe"
          /\ ans.shutdown = "exit_ok"

NoCall == [called |-> FALSE, action |-> <<>>, persist_ok |-> FALSE, ok |-> FALSE,
           effects |-> <<>>, rebooting |-> FALSE]

IaInit ==
    /\ ia_cfg \in [enabled : BOOLEAN, show_confirmation : BOOLEAN,
                   countdown_seconds : CountdownChoices]
    /\ ia_db = <<>>
    /\ ia_call = NoCall

IaIdle ==
    /\ ia_cfg = [enabled |-> FALSE, show_confirmation |-> FALSE, countdown_seconds |-> 0]
    /\ ia_db = <<>>
    /\ ia_call = NoCall

RecordInteraction ==
    /\ Len(ia_db) < MaxInteractions
    /\ \E action \in InteractionActions, ans \in Answers :
          LET out == record_interaction(action, ia_cfg, ans)
          IN  /\ ia_db' = IF \E i \in 1..Len(out.effects) : out.effects[i] = "persisted"
                          THEN Append(ia_db, action) ELSE ia_db
              /\ ia_call' = [called |-> TRUE, action |-> action,
                             persist_ok |-> ans.persist_ok, ok |-> out.ok,
                             effects |-> out.effects,
                             rebooting |-> Rebooting(out.effects, ans)]
    /\ UNCHANGED ia_cfg
    /\ UNCHANGED <<loopVars, wdVars, detVars, tfVars, perVars, ntVars, svVars, tsVars, envVars>>

\* ------------------------------------------------------------------------
\* notification/mod.rs: is_quiet_hours
SecondsPerDay == 86400

\* NaiveTime::parse_from_str(s, "%H:%M") on a two-digit hour and minute,
\* as seconds since midnight.
ParseHHMM(s) ==
    IF /\ Len(s) = 5 /\ s[3] = ":"
       /\ IsDigit(s[1]) /\ IsDigit(s[2]) /\ IsDigit(s[4]) /\ IsDigit(s[5])
       /\ DecimalValue(SubSeq(s, 1, 2)) < 24 /\ DecimalValue(SubSeq(s, 4, 5)) < 60
    THEN [ok |-> TRUE,
          secs |-> DecimalValue(SubSeq(s, 1, 2)) * 3600 + DecimalValue(SubSeq(s, 4, 5)) * 60]
    ELSE [ok |-> FALSE, secs |-> 0]

\* A clock is [utc, offset]: seconds since Sunday 00:00 UTC and the local
\* zone's offset from UTC in seconds.
\* `Utc::now().weekday()` with Sunday = 0 .. Saturday = 6
UtcWeekday(clock) == (clock.utc \div SecondsPerDay) % 7

LocalSeconds(clock) == (clock.utc + clock.offset + 7 * SecondsPerDay) % (7 * SecondsPerDay)

\* `chrono::Local::now().time()`
LocalTime(clock) == LocalSeconds(clock) % SecondsPerDay

LocalWeekday(clock) == (LocalSeconds(clock) \div SecondsPerDay) % 7

\* `current_day` of is_quiet_hours
CurrentDay(clock) == UtcWeekday(clock)

is_quiet_hours(qh, clock) ==
    IF ~qh.enabled THEN FALSE
    ELSE IF CurrentDay(clock) \notin qh.days_of_week THEN FALSE
    ELSE LET start_time == ParseHHMM(qh.start_time)
             end_time == ParseHHMM(qh.end_time)
             current_time == LocalTime(clock)
         IN  IF ~start_time.ok \/ ~end_time.ok THEN FALSE
             ELSE IF start_time.secs > end_time.secs
             THEN current_time >= start_time.secs \/ current_time < end_time.secs
             ELSE current_time >= start_time.secs /\ current_time < end_time.secs

\* Times that config validation (is_valid_time_format) accepts.
QuietTimes == { <<"2", "2", ":", "0", "0">>, <<"0", "8", ":", "0", "0">>,
                <<"0", "9", ":", "0", "0">> }

QuietDaySets == { 0..6, {1}, 1..5 }

QuietHoursConfigs ==
    [enabled : BOOLEAN, start_time : QuietTimes, end_time : QuietTimes,
     days_of_week : QuietDaySets]

ClockHours == {4, 9, 23}
ClockOffsets == {-5 * 3600, 0, 2 * 3600}

Clocks == [utc : {day * SecondsPerDay + h * 3600 : day \in 0..6, h \in ClockHours},
           offset : ClockOffsets]

NtConfig(qh, type, tray) ==
    [quiet_hours |-> qh, notification_type |-> type, tray_manager |-> tray]

NoNotification == [called |-> FALSE, quiet |-> FALSE, ok |-> FALSE, effects |-> <<>>,
                   answers |-> [sessions |-> "empty", db_ok |-> FALSE,
                                tray_ok |-> FALSE, toast_ok |-> FALSE]]

QuietIdle == [enabled |-> FALSE, start_time |-> <<"2", "2", ":", "0", "0">>,
              end_time |-> <<"0", "8", ":", "0", "0">>, days_of_week |-> 0..6]

NtIdle ==
    /\ nt_cfg = NtConfig(QuietIdle, "both", FALSE)
    /\ nt_clock = [utc |-> 0, offset |-> 0]
    /\ qh_result = None
    /\ nt_call = NoNotification
    /\ nt_db = <<>>

QhInit ==
    /\ \E qh \in QuietHoursConfigs : nt_cfg = NtConfig(qh, "both", FALSE)
    /\ nt_clock \in Clocks
    /\ qh_result = None
    /\ nt_call = NoNotification
    /\ nt_db = <<>>

QuietHoursCall ==
    /\ qh_result = None
    /\ qh_result' = Some(is_quiet_hours(nt_cfg.quiet_hours, nt_clock))
    /\ UNCHANGED <<nt_cfg, nt_clock, nt_call, nt_db>>
    /\ UNCHANGED <<loopVars, wdVars, detVars, tfVars, perVars, iaVars, svVars, tsVars, envVars>>

\* ------------------------------------------------------------------------
\* notification/mod.rs: show_notification, show_tray_notification,
\* show_toast_notification
NotificationTypes == {"tray", "toast", "both"}

\* What the session enumeration, the database and the display channels
\* answer during one call.
SessionResults == {"error", "empty", "one"}

NotifyAnswers == [sessions : SessionResults, db_ok : BOOLEAN, tray_ok : BOOLEAN,
                  toast_ok : BOOLEAN]

\* Without a tray manager the function only warns and returns Ok.
show_tray_notification(cfg, ans) ==
    IF cfg.tray_manager THEN Outcome(ans.tray_ok, <<"tray">>)
    ELSE Outcome(TRUE, <<>>)

show_toast_notification(cfg, ans) == Outcome(ans.toast_ok, <<"toast">>)

ShowByType(cfg, ans) ==
    IF cfg.notification_type = "tray" THEN show_tray_notification(cfg, ans)
    ELSE IF cfg.notification_type = "toast" THEN show_toast_notification(cfg, ans)
    ELSE Outcome(TRUE, show_tray_notification(cfg, ans).effects
                           \o show_toast_notification(cfg, ans).effects)

show_notification_SessionGateFirst(cfg, clock, ans) ==
    IF ans.sessions = "error" THEN Outcome(FALSE, <<"get_active_sessions">>)
    ELSE IF ans.sessions = "empty" THEN Outcome(TRUE, <<"get_active_sessions">>)
    ELSE IF is_quiet_hours(cfg.quiet_hours, clock)
    THEN Outcome(TRUE, <<"get_active_sessions", "is_quiet_hours">>)
    ELSE IF ~ans.db_ok
    THEN Outcome(FALSE, <<"get_active_sessions", "is_quiet_hours", "add_notification_failed">>)
    ELSE LET shown == ShowByType(cfg, ans)
         IN  Outcome(shown.ok, <<"get_active_sessions", "is_quiet_hours", "add_notification">>
                                   \o shown.effects)

show_notification(cfg, clock, ans) ==
    IF is_quiet_hours(cfg.quiet_hours, clock) THEN Outcome(TRUE, <<"is_quiet_hours">>)
    ELSE IF ans.sessions = "error"
    THEN Outcome(FALSE, <<"is_quiet_hours", "get_active_sessions">>)
    ELSE IF ans.sessions = "empty"
    THEN Outcome(TRUE, <<"is_quiet_hours", "get_active_sessions">>)
    ELSE IF ~ans.db_ok
    THEN Outcome(FALSE, <<"is_quiet_hours", "get_active_sessions", "add_notification_failed">>)
    ELSE LET shown == ShowByType(cfg, ans)
         IN  Outcome(shown.ok, <<"is_quiet_hours", "get_active_sessions", "add_notification">>
                                   \o shown.effects)

\* initialize() creates the tray manager only for the tray and both types,
\* and not when running as a service.
NotifyConfigs ==
    {NtConfig(qh, type, tray) :
        qh \in {QuietIdle, [QuietIdle EXCEPT !.enabled = TRUE]},
        type \in NotificationTypes, tray \in BOOLEAN}
      \ {NtConfig(qh, "toast", TRUE) : qh \in {QuietIdle, [QuietIdle EXCEPT !.enabled = TRUE]}}

NotifyClocks == {[utc |-> 23 * 3600, offset |-> 0], [utc |-> 9 * 3600, offset |-> 0]}

NotifyInit ==
    /\ nt_cfg \in NotifyConfigs
    /\ nt_clock \in NotifyClocks
    /\ qh_result = None
    /\ nt_call = NoNotification
    /\ nt_db = <<>>

ShowNotification ==
    /\ Len(nt_db) < MaxNotifications
    /\ \E ans \in NotifyAnswers :
          LET out == show_notification(nt_cfg, nt_clock, ans)
          IN  /\ nt_db' = IF \E i \in 1..Len(out.effects) : out.effects[i] = "add_notification"
                          THEN Append(nt_db, "reboot_required") ELSE nt_db
              /\ nt_call' = [called |-> TRUE,
                             quiet |-> is_quiet_hours(nt_cfg.quiet_hours, nt_clock),
                             ok |-> out.ok, effects |-> out.effects, answers |-> ans]
    /\ UNCHANGED <<nt_cfg, nt_clock, qh_result>>
    /\ UNCHANGED <<loopVars, wdVars, detVars, tfVars, perVars, iaVars, svVars, tsVars, envVars>>

\* ------------------------------------------------------------------------
\* service/mod.rs: run_service, its worker threads and the stop handler
Workers == {"config_refresh", "reboot_check"}

SvLog(thread, ran_body) == [thread |-> thread, ran_body |-> ran_body]

\* run_service has spawned both worker threads and waits in
\* `while unsafe { SERVICE_RUNNING }`.
SvInit ==
    /\ SERVICE_RUNNING = TRUE
    /\ sv_pc = [w \in Workers |-> "loop"]
    /\ sv_main = "waiting"
    /\ sv_log = SvLog("none", FALSE)

\* The service not started, for the specifications of the other components.
SvIdle ==
    /\ SERVICE_RUNNING = FALSE
    /\ sv_pc = [w \in Workers |-> "exited"]
    /\ sv_main = "returned"
    /\ sv_log = SvLog("none", FALSE)

\* ServiceControl::Stop => SERVICE_RUNNING = false
ServiceStop ==
    /\ SERVICE_RUNNING
    /\ SERVICE_RUNNING' = FALSE
    /\ UNCHANGED <<sv_pc, sv_main, sv_log>>
    /\ UNCHANGED <<loopVars, wdVars, detVars, tfVars, perVars, iaVars, ntVars, tsVars, envVars>>

\* One iteration of a worker loop that finds the flag set: the loop body and
\* the 60 s sleep that ends it.
WorkerIteration ==
    /\ \E w \in Workers :
          /\ sv_pc[w] = "loop"
          /\ SERVICE_RUNNING
          /\ sv_log' = SvLog(w, TRUE)
    /\ UNCHANGED <<SERVICE_RUNNING, sv_pc, sv_main>>
    /\ UNCHANGED <<loopVars, wdVars, detVars, tfVars, perVars, iaVars, ntVars, tsVars, envVars>>

\* `if unsafe { !SERVICE_RUNNING } { break; }` at the top of a worker loop.
WorkerExit ==
    /\ \E w \in Workers :
          /\ sv_pc[w] = "loop"
          /\ ~SERVICE_RUNNING
          /\ sv_pc' = [sv_pc EXCEPT ![w] = "exited"]
          /\ sv_log' = SvLog(w, FALSE)
    /\ UNCHANGED <<SERVICE_RUNNING, sv_main>>
    /\ UNCHANGED <<loopVars, wdVars, detVars, tfVars, perVars, iaVars, ntVars, tsVars, envVars>>

\* `while unsafe { SERVICE_RUNNING } { sleep(1 s) }` ends.
MainObserveStop ==
    /\ sv_main = "waiting"
    /\ ~SERVICE_RUNNING
    /\ sv_main' = "join_config_refresh"
    /\ UNCHANGED <<SERVICE_RUNNING, sv_pc, sv_log>>
    /\ UNCHANGED <<loopVars, wdVars, detVars, tfVars, perVars, iaVars, ntVars, tsVars, envVars>>

\* config_refresh_thread.join()
MainJoinConfigRefresh ==
    /\ sv_main = "join_config_refresh"
    /\ sv_pc["config_refresh"] = "exited"
    /\ sv_main' = "join_reboot_check"
    /\ UNCHANGED <<SERVICE_RUNNING, sv_pc, sv_log>>
    /\ UNCHANGED <<loopVars, wdVars, detVars, tfVars, perVars, iaVars, ntVars, tsVars, envVars>>

\* reboot_check_thread.join(), then `Ok(())`
MainJoinRebootCheck ==
    /\ sv_main = "join_reboot_check"
    /\ sv_pc["reboot_check"] = "exited"
    /\ sv_main' = "returned"
    /\ UNCHANGED <<SERVICE_RUNNING, sv_pc, sv_log>>
    /\ UNCHANGED <<loopVars, wdVars, detVars, tfVars, perVars, iaVars, ntVars, tsVars, envVars>>

\* ------------------------------------------------------------------------
\* utils/timespan.rs: format_timespan
DigitChar(n) ==
    CASE n = 0 -> "0" [] n = 1 -> "1" [] n = 2 -> "2" [] n = 3 -> "3"
      [] n = 4 -> "4" [] n = 5 -> "5" [] n = 6 -> "6" [] n = 7 -> "7"
      [] n = 8 -> "8" [] n = 9 -> "9"

\* `{}` applied to a u64: its decimal digits, "0" for zero.
RECURSIVE FormatU64(_)
FormatU64(n) ==
    IF n < 10 THEN <<DigitChar(n)>>
    ELSE Append(FormatU64(n \div 10), DigitChar(n % 10))

format_timespan_MinutesNotReduced(total_seconds) ==
    LET hours == total_seconds \div (60 * 60)
        minutes == total_seconds \div 60
    IN  FormatU64(hours) \o <<"h">> \o FormatU64(minutes) \o <<"m">>

format_timespan(total_seconds) ==
    LET hours == total_seconds \div (60 * 60)
        minutes == (total_seconds \div 60) % 60
        seconds == total_seconds % 60
        h == FormatU64(hours) \o <<"h">>
        m == FormatU64(minutes) \o <<"m">>
        s == FormatU64(seconds) \o <<"s">>
    IN  IF hours > 0 THEN
            IF minutes > 0 THEN
                IF seconds > 0 THEN h \o m \o s ELSE h \o m
            ELSE IF seconds > 0 THEN h \o s
            ELSE h
        ELSE IF minutes > 0 THEN
            IF seconds > 0 THEN m \o s ELSE m
        ELSE s

\* The durations drawn: every combination of an hours, a minutes and a
\* seconds part, each of them absent (0), one digit or two digits long.
TimespanHours == 0..MaxTimespanHours \cup {25, 120}
TimespanMinutes == {0, 1, 30, 59}
TimespanSeconds == {0, 1, 15, 59}

TimespanDurations ==
    { h * 3600 + m * 60 + sec :
        h \in TimespanHours, m \in TimespanMinutes, sec \in TimespanSeconds }

TsInit ==
    /\ ts_duration \in TimespanDurations
    /\ ts_text = None
    /\ ts_parsed = None

TsIdle ==
    /\ ts_duration = 0
    /\ ts_text = None
    /\ ts_parsed = None

\* parse_timespan(&format_timespan(duration))
TimespanRoundTrip ==
    /\ ts_text = None
    /\ ts_text' = Some(format_timespan(ts_duration))
    /\ ts_parsed' = Some(parse_timespan(format_timespan(ts_duration)))
    /\ UNCHANGED ts_duration
    /\ UNCHANGED <<loopVars, wdVars, detVars, tfVars, perVars, iaVars, ntVars, svVars, envVars>>

Init == LoopInit /\ WdIdle /\ DetIdle /\ TfIdle /\ PerIdle /\ IaIdle /\ NtIdle /\ SvIdle /\ TsIdle /\ EnvIdle

Next == DetectionCycle

Spec == Init /\ [][Next]_vars

WatchdogInit == WdInit /\ LoopIdle /\ DetIdle /\ TfIdle /\ PerIdle /\ IaIdle /\ NtIdle /\ SvIdle /\ TsIdle /\ EnvIdle

WatchdogNext ==
    \/ WdObserveStop
    \/ WdIdleIteration
    \/ WdCheckIteration
    \/ WdRestartIteration
    \/ WdGiveUpIteration
    \/ WdStop

SpecWatchdog == WatchdogInit /\ [][WatchdogNext]_vars

DetectorInit == DetInit /\ LoopIdle /\ WdIdle /\ TfIdle /\ PerIdle /\ IaIdle /\ NtIdle /\ SvIdle /\ TsIdle /\ EnvIdle

SpecDetector == DetectorInit /\ [][DetectorCall]_vars

PersistInit == PersistStart /\ WdIdle /\ DetIdle /\ TfIdle /\ IaIdle /\ NtIdle /\ SvIdle /\ TsIdle /\ EnvIdle

SpecPersist == PersistInit /\ [][PersistNext]_vars

InteractionInit == IaInit /\ LoopIdle /\ WdIdle /\ DetIdle /\ TfIdle /\ PerIdle /\ NtIdle /\ SvIdle /\ TsIdle /\ EnvIdle

SpecInteraction == InteractionInit /\ [][RecordInteraction]_vars

TimeframeInit == TimeframeInputs /\ WdIdle /\ DetIdle /\ PerIdle /\ IaIdle /\ NtIdle /\ SvIdle /\ TsIdle /\ EnvIdle

QuietHoursInit == QhInit /\ LoopIdle /\ WdIdle /\ DetIdle /\ TfIdle /\ PerIdle /\ IaIdle /\ SvIdle /\ TsIdle /\ EnvIdle

SpecQuietHours == QuietHoursInit /\ [][QuietHoursCall]_vars

NotificationInit == NotifyInit /\ LoopIdle /\ WdIdle /\ DetIdle /\ TfIdle /\ PerIdle /\ IaIdle /\ SvIdle /\ TsIdle /\ EnvIdle

SpecNotification == NotificationInit /\ [][ShowNotification]_vars

SpecTimeframe == TimeframeInit /\ [][TimeframeCall]_vars

ShutdownInit ==
    /\ SvInit /\ WdInit /\ LoopIdle /\ DetIdle /\ TfIdle /\ PerIdle /\ IaIdle /\ NtIdle
    /\ TsIdle /\ EnvIdle

\* run_service never calls Watchdog::stop, so the watchdog thread only takes
\* the steps of a loop whose own flag stays set.
ShutdownNext ==
    \/ ServiceStop
    \/ WorkerIteration
    \/ WorkerExit
    \/ MainObserveStop
    \/ MainJoinConfigRefresh
    \/ MainJoinRebootCheck
    \/ WdIdleIteration
    \/ WdCheckIteration
    \/ WdRestartIteration
    \/ WdGiveUpIteration

SpecShutdown == ShutdownInit /\ [][ShutdownNext]_vars

\* The detection loop started at noon under a table with a cadence, with a
\* notification manager that may not get the reminder through.
ReminderStart == 12 * 3600

ReminderInit ==
    /\ now = ReminderStart
    /\ last_check = ReminderStart
    /\ timeframes \in {TableLegacy, TableDaily}
    /\ db_state = None
    /\ db_sources = <<>>
    /\ db_history = <<>>
    /\ cycle = IdleCycle("init")
    /\ EnvInit
    /\ WdIdle /\ DetIdle /\ TfIdle /\ PerIdle /\ IaIdle /\ NtIdle /\ SvIdle /\ TsIdle

SpecReminder == ReminderInit /\ [][DetectionCycle]_vars

TimespanInit ==
    /\ TsInit /\ LoopIdle /\ WdIdle /\ DetIdle /\ TfIdle /\ PerIdle /\ IaIdle /\ NtIdle
    /\ SvIdle /\ EnvIdle

SpecTimespan == TimespanInit /\ [][TimespanRoundTrip]_vars

\* ========================================================================
\* Properties of the detection loop

\* The state a saved pass started from: the stored row, or the one
\* RebootState::new made (whose creation time the saved row still carries).
PassStartState ==
    IF db_state = None
    THEN RebootStateNew(cycle'.required, db_state'[1].created_at)
    ELSE db_state[1]

\* C1: in every pass that writes a state, reboot_required_since is stamped
\* with the cycle time when reboot_required flips false->true, cleared when
\* it flips true->false and kept when it does not flip; and in the written
\* state (the first one ever created included) it is present exactly when
\* reboot_required is true.
C1_RequiredSince ==
    [][ (cycle'.kind = "pass" /\ cycle'.saved) =>
          LET old == PassStartState
              new == db_state'[1]
          IN  /\ (~old.reboot_required /\ new.reboot_required)
                    => new.reboot_required_since = Some(cycle'.at)
              /\ (old.reboot_required /\ ~new.reboot_required)
                    => new.reboot_required_since = None
              /\ (old.reboot_required = new.reboot_required)
                    => new.reboot_required_since = old.reboot_required_since
              /\ IsSome(new.reboot_required_since) <=> new.reboot_required ]_vars

\* A stored not-required state was read, detection said required, and the
\* written state carries the cycle time.
C1_Witness ==
    /\ cycle.kind = "pass" /\ cycle.saved /\ ~cycle.created
    /\ ~cycle.was_required /\ cycle.required
    /\ db_state[1].reboot_required_since = Some(cycle.at)

\* C2: a pass in which reboot_required flips true->false appends exactly one
\* RebootHistory record, and a pass without that flip appends none.
C2_HistoryOnClear ==
    cycle.kind = "pass" =>
        cycle.history_added = IF cycle.was_required /\ ~cycle.required THEN 1 ELSE 0

\* C8: when a reminder is surfaced for a state that has been pending for 30
\* hours under a table holding the tier {24h..48h, "4h", ["1h","4h"]}, that
\* tier is selected, the stored next_reminder_time is now + 4h and the
\* deferral options offered are ["1h","4h"].
C8_EndToEnd ==
    ( /\ cycle.kind = "pass" /\ cycle.notified /\ cycle.saved
      /\ \E i \in 1..Len(timeframes) : timeframes[i] = Tier24to48
      /\ IsSome(db_state[1].reboot_required_since)
      /\ cycle.at - db_state[1].reboot_required_since[1] = 30 * 3600 )
    => /\ timeframes[cycle.tier[1]] = Tier24to48
       /\ db_state[1].next_reminder_time = Some(cycle.at + 4 * 3600)
       /\ cycle.deferrals = Some(<<"1h", "4h">>)

\* C12: an iteration whose state read fails writes nothing to the database,
\* and the detection attempt that follows it comes only after the loop has
\* slept (the clock has moved on).
C12_ReadFailureWaits ==
    [][ /\ cycle'.kind = "read_failed"
           => (db_state' = db_state /\ db_sources' = db_sources)
        /\ (cycle.kind = "read_failed" /\ cycle'.kind = "pass")
           => cycle'.at > cycle.at ]_vars

C17_ReminderCleared ==
    (IsSome(db_state) /\ ~db_state[1].reboot_required)
        => db_state[1].next_reminder_time = None

\* A pass that found a stored reboot-required state no longer required
\* wrote a state without a reminder time.
C17_Witness ==
    /\ cycle.kind = "pass" /\ cycle.saved
    /\ cycle.was_required /\ ~cycle.required
    /\ ~db_state[1].reboot_required
    /\ db_state[1].next_reminder_time = None
    /\ db_state[1].reboot_required_since = None

\* C18: in every state the loop has written, next_reminder_time, when
\* present, is not before last_check_time.
C18_ReminderNotBeforeCheck ==
    (IsSome(db_state) /\ IsSome(db_state[1].next_reminder_time))
        => db_state[1].next_reminder_time[1] >= db_state[1].last_check_time

\* A pass found the reboot still required with the reminder not yet due and
\* wrote the state with the reminder time it had.
C18_Witness ==
    /\ cycle.kind = "pass" /\ cycle.saved
    /\ cycle.was_required /\ cycle.required /\ cycle.tier = None
    /\ IsSome(db_state[1].next_reminder_time)
    /\ db_state[1].next_reminder_time[1] > db_state[1].last_check_time
    /\ db_state[1].last_check_time = cycle.at

\* C19: after a detection pass the sources of the state in memory are
\* exactly the evidence list of that pass, and so are the sources that
\* save_reboot_state persisted: what get_reboot_state then returns carries
\* that list and nothing from an earlier pass.
C19_SourcesReplaced ==
    cycle.kind = "pass" =>
        /\ cycle.state_sources = cycle.evidence
        /\ cycle.saved =>
              /\ db_sources = cycle.evidence
              /\ get_reboot_state(db_state, db_sources)[1].sources = cycle.evidence

\* A pass over a stored reboot-required state found a single source, later
\* than the stored ones, and persisted exactly that one.
C19_Witness ==
    /\ cycle.kind = "pass" /\ cycle.saved /\ ~cycle.created
    /\ cycle.was_required
    /\ Len(cycle.evidence) = 1
    /\ cycle.evidence[1].detected_at > 0
    /\ db_sources = cycle.evidence

\* C25: the next_reminder_time stored by a cycle that surfaces a reminder is
\* calculate_next_reminder_time(selected tier, now): now plus the
\* reminder_interval timespan when present and parseable, else plus
\* reminder_interval_hours, else plus reminder_interval_minutes, else 1 hour.
C25_StoredIsCalculated ==
    (cycle.kind = "pass" /\ IsSome(cycle.tier) /\ cycle.saved)
        => db_state[1].next_reminder_time
              = Some(calculate_next_reminder_time(timeframes[cycle.tier[1]], cycle.at))

\* ========================================================================
\* Properties of the watchdog

\* C3: whatever max_restart_attempts is and whatever the liveness queries
\* answer, the restart attempts made since the last is_alive=true
\* observation never exceed max_restart_attempts (none at all when it is 0).
C3_BoundedRetry == wd_since_alive <= wd_cfg.max_restart_attempts

\* Three restarts in a row failed under max_restart_attempts = 3.
C3_Witness ==
    /\ wd_cfg.max_restart_attempts = 3
    /\ wd_since_alive = 3
    /\ wd_log.restarted /\ ~wd_log.restart_ok

\* C4 as stated: with max_restart_attempts = 3, after three consecutive
\* is_alive=false results each followed by a failed restart the loop has
\* stopped: no later iteration queries the service again.
C4_StopsAfterThirdAttempt ==
    (wd_cfg.max_restart_attempts = 3 /\ wd_log.prev_streak = 3) => ~wd_log.checked

\* C4 as amended: with max_restart_attempts = 3, after three consecutive
\* is_alive=false results each followed by a failed restart, the next
\* liveness query that answers not-alive ends the loop without a restart;
\* once the loop has given up it never queries or restarts again.
C4_GiveUp ==
    [][ /\ ( /\ wd_cfg.max_restart_attempts = 3 /\ wd_fail_streak = 3
             /\ wd_log' # wd_log /\ wd_log'.result = "dead" )
           => (wd_pc' = "gave_up" /\ ~wd_log'.restarted)
        /\ wd_pc = "gave_up"
           => (wd_pc' = "gave_up" /\ wd_log' = wd_log
               /\ restart_attempts' = restart_attempts) ]_vars

\* The loop gave up on the query that followed the third failed restart.
C4_Witness ==
    /\ wd_cfg.max_restart_attempts = 3
    /\ wd_pc = "gave_up"
    /\ wd_log.prev_streak = 3 /\ wd_log.checked /\ wd_log.result = "dead"
    /\ ~wd_log.restarted

\* C20: an iteration that observes the service alive sets restart_attempts
\* to 0, an iteration that attempts a restart adds exactly 1 to it whether
\* the restart succeeded or failed, and at every point restart_attempts is
\* the number of restart attempts made since the last alive observation and
\* is at most max_restart_attempts.
C20_RestartCounter ==
    [][ /\ (wd_log' # wd_log /\ wd_log'.result = "alive") => restart_attempts' = 0
        /\ (wd_log' # wd_log /\ wd_log'.restarted)
              => restart_attempts' = restart_attempts + 1
        /\ restart_attempts = wd_since_alive
        /\ restart_attempts' = wd_since_alive'
        /\ restart_attempts' <= wd_cfg.max_restart_attempts ]_vars

\* The second restart attempt since the service was last seen alive
\* succeeded and was counted.
C20_Witness ==
    /\ wd_log.restarted /\ wd_log.restart_ok
    /\ restart_attempts = 2
    /\ wd_since_alive = 2

\* C21: an iteration in which a resume or display-on power event is pending
\* queries the liveness of the supervised service even if less than
\* check_interval has elapsed since the last check; a suspend or display-off
\* event does not force a check.
C21_PowerEventForcesCheck ==
    /\ wd_log.event \in {"Resume", "DisplayOn"} => wd_log.checked
    /\ ( /\ wd_log.event \in {"Suspend", "DisplayOff"}
         /\ wd_log.elapsed < wd_cfg.check_interval_seconds )
          => ~wd_log.checked

\* C30: an error result of the liveness query, and any power event or forced
\* check, by itself neither changes restart_attempts nor ends the loop; only
\* an Ok(true) result resets the counter and only an Ok(false) result
\* increments it or makes the loop give up.
C30_CounterFrame ==
    [][ /\ (wd_log' # wd_log /\ wd_log'.result \in {"error", "none"})
           => (restart_attempts' = restart_attempts /\ wd_pc' = wd_pc)
        /\ restart_attempts' < restart_attempts
           => (wd_log' # wd_log /\ wd_log'.result = "alive" /\ restart_attempts' = 0)
        /\ restart_attempts' > restart_attempts
           => (wd_log' # wd_log /\ wd_log'.result = "dead")
        /\ (wd_pc = "loop" /\ wd_pc' = "gave_up")
           => (wd_log' # wd_log /\ wd_log'.result = "dead") ]_vars

\* A check forced after a long sleep, with a resume event pending, could not
\* tell whether the service runs: the two restart attempts counted so far
\* stay counted and the loop goes on.
C30_Witness ==
    /\ wd_pc = "loop"
    /\ wd_log.checked /\ wd_log.result = "error"
    /\ wd_log.event = "Resume"
    /\ wd_log.elapsed > wd_cfg.check_interval_seconds * 2
    /\ restart_attempts = 2

\* ========================================================================
\* Properties of check_reboot_required

DetSourceNames(r) == {r.sources[i].name : i \in 1..Len(r.sources)}

\* C5: the call returns Ok whatever the checks do; every enabled check that
\* reports required=true makes the aggregate true and has its source in the
\* evidence list, whatever the other checks return; a check that errors
\* adds no evidence and, when nothing else votes, leaves the aggregate false.
C5_ErrorsNeverFatal ==
    IsSome(det_result) =>
        LET r == det_result[1]
        IN  /\ r.ok
            /\ \A n \in CheckNames :
                  /\ (det_methods[n] /\ det_probes[n] = "required")
                        => (r.required /\ n \in DetSourceNames(r))
                  /\ det_probes[n] = "error" => n \notin DetSourceNames(r)
            /\ (\A n \in CheckNames : det_probes[n] # "required") => ~r.required

\* One enabled check errors while another enabled check reports required.
C5_Witness ==
    /\ IsSome(det_result)
    /\ det_methods["windows_update"] /\ det_probes["windows_update"] = "error"
    /\ det_methods["registry"] /\ det_probes["registry"] = "required"
    /\ det_result[1].required

\* C6: the aggregate flag is the OR over the enabled checks that succeeded,
\* the evidence list is exactly the sources of the enabled checks that
\* returned required=true in the order windows_update, sccm, registry,
\* pending_file_operations, and the flag is true iff the list is non-empty.
C6_ExactEvidence ==
    IsSome(det_result) =>
        LET r == det_result[1]
            order == <<"windows_update", "sccm", "registry", "pending_file_operations">>
            Voted(n) == det_methods[n] /\ det_probes[n] = "required"
        IN  /\ r.required = (\E n \in CheckNames : Voted(n))
            /\ [i \in 1..Len(r.sources) |-> r.sources[i].name] = SelectSeq(order, Voted)
            /\ r.required = (r.sources # <<>>)

\* A disabled check would have voted, and two enabled ones did.
C6_Witness ==
    /\ IsSome(det_result)
    /\ ~det_methods["sccm"] /\ det_probes["sccm"] = "required"
    /\ det_methods["windows_update"] /\ det_probes["windows_update"] = "required"
    /\ det_methods["pending_file_operations"]
    /\ det_probes["pending_file_operations"] = "required"
    /\ Len(det_result[1].sources) = 2

\* ========================================================================
\* Properties of get_timeframe

\* Every tier ends where the next one starts.
ContiguousAscending(tfs) ==
    \A i \in 1..(Len(tfs) - 1) :
        IsSome(tfs[i].max_hours) /\ tfs[i].max_hours[1] = tfs[i + 1].min_hours[1]

\* hours lies in the tier's [min, max), max being +infinity when absent.
TierContains(tf, hours) ==
    /\ tf.min_hours[1] <= hours
    /\ IsSome(tf.max_hours) => hours < tf.max_hours[1]

TfHoursElapsed == HoursSinceRequired(tf_state.sources, now)

\* C7 as stated: for a contiguous ascending table and a reboot-required
\* state with hours_elapsed >= table[0].min, get_timeframe returns a tier
\* whose [min, max) contains hours_elapsed.
C7_Containment ==
    ( /\ tf_result.called
      /\ tf_state.reboot_required
      /\ ContiguousAscending(timeframes)
      /\ TfHoursElapsed >= timeframes[1].min_hours[1] )
    => ( /\ IsSome(tf_result.tier)
         /\ TierContains(timeframes[tf_result.tier[1]], TfHoursElapsed) )

\* C7 as amended: the same, for hours_elapsed below the last tier's max when
\* the last tier has one.
C7_ContainmentBelowLastMax ==
    ( /\ tf_result.called
      /\ tf_state.reboot_required
      /\ ContiguousAscending(timeframes)
      /\ TfHoursElapsed >= timeframes[1].min_hours[1]
      /\ IsSome(timeframes[Len(timeframes)].max_hours)
            => TfHoursElapsed < timeframes[Len(timeframes)].max_hours[1] )
    => ( /\ IsSome(tf_result.tier)
         /\ TierContains(timeframes[tf_result.tier[1]], TfHoursElapsed) )

\* The second of two contiguous tiers was selected at the boundary hour.
C7_Witness ==
    /\ tf_result.called
    /\ tf_state.reboot_required
    /\ Len(timeframes) = 2
    /\ ContiguousAscending(timeframes)
    /\ TfHoursElapsed = timeframes[2].min_hours[1]
    /\ IsSome(timeframes[2].max_hours)
    /\ tf_result.tier = Some(2)

\* The tiers of the table whose [min, max) contains the hours elapsed.
TfMatching == {i \in 1..Len(timeframes) : TierContains(timeframes[i], TfHoursElapsed)}

\* C23: for a state with reboot_required = false get_timeframe returns no
\* tier; for a required state it returns the first tier in table order with
\* min <= hours_elapsed < max (max = +infinity when absent), and when no tier
\* matches it returns the last configured tier, so a required state with a
\* non-empty table always gets a tier.
C23_FirstMatchElseLast ==
    tf_result.called =>
        IF ~tf_state.reboot_required THEN tf_result.tier = None
        ELSE IF TfMatching # {}
        THEN /\ IsSome(tf_result.tier)
             /\ tf_result.tier[1] \in TfMatching
             /\ \A j \in TfMatching : tf_result.tier[1] <= j
        ELSE Len(timeframes) > 0 => tf_result.tier = Some(Len(timeframes))

\* No tier of a two-tier table contained the hours elapsed and the second
\* tier was returned.
C23_Witness ==
    /\ tf_result.called
    /\ tf_state.reboot_required
    /\ Len(timeframes) = 2
    /\ TfMatching = {}
    /\ tf_result.tier = Some(2)

\* ========================================================================
\* Properties of the database

\* C9: whatever get_reboot_state returns to a reader running beside a
\* writer is a state some save committed: never the row of one save with
\* the source list of another.
C9_NoTornRead ==
    (rd_pc = "done" /\ IsSome(rd_result)) => rd_result[1] \in db_commits

\* ========================================================================
\* Properties of record_interaction

RebootTriggers == {"reboot_system", "confirmation_dialog", "countdown",
                   "ExitWindowsEx", "shutdown.exe"}

\* C10: in a record_interaction call whose action begins with "reboot:",
\* every step of the reboot trigger comes after the interaction has been
\* persisted, and when persisting fails no step of the trigger happens.
C10_PersistBeforeReboot ==
    (ia_call.called /\ StartsWith(ia_call.action, RebootPrefix)) =>
        LET e == ia_call.effects
        IN  /\ \A i \in 1..Len(e) :
                  e[i] \in RebootTriggers
                    => /\ \E j \in 1..(i - 1) : e[j] = "persisted"
                       /\ ia_db # <<>> /\ ia_db[Len(ia_db)] = ia_call.action
            /\ ~ia_call.persist_ok => \A i \in 1..Len(e) : e[i] \notin RebootTriggers

\* A "reboot:" interaction was persisted and the reboot then went through.
C10_Witness ==
    /\ ia_call.called
    /\ StartsWith(ia_call.action, RebootPrefix)
    /\ ia_call.effects[1] = "persisted"
    /\ ia_call.effects[Len(ia_call.effects)] = "ExitWindowsEx"
    /\ ia_call.ok

\* The positions of the call's effects at which reboot_system was entered.
TriggerCalls == {i \in 1..Len(ia_call.effects) : ia_call.effects[i] = "reboot_system"}

\* C11: in a record_interaction call whose action begins with "reboot:" and
\* that reached the reboot trigger, the trigger is entered once; when the
\* confirmation was declined or the OS did not accept the restart the call
\* returns an error; and the interaction persisted before the attempt is
\* still the last stored row.
C11_FailureSurfaced ==
    (ia_call.called /\ StartsWith(ia_call.action, RebootPrefix) /\ TriggerCalls # {}) =>
        /\ Cardinality(TriggerCalls) = 1
        /\ ~ia_call.rebooting => ~ia_call.ok
        /\ ia_db # <<>> /\ ia_db[Len(ia_db)] = ia_call.action

\* ========================================================================
\* Properties of is_quiet_hours and show_notification

\* The time of day lies in [start, end), or, when start > end, at or after
\* start or before end.
InQuietWindow(time, start, end) ==
    IF start > end THEN time >= start \/ time < end
    ELSE time >= start /\ time < end

\* C13: with quiet hours enabled and valid times, a notification is
\* suppressed iff the current local weekday is in days_of_week and the
\* current local time is in the window; 22:00-08:00 on all days suppresses
\* at local 23:00 and not at 09:00; disabled quiet hours suppress nothing.
C13_QuietHoursGate ==
    IsSome(qh_result) =>
        LET qh == nt_cfg.quiet_hours
            start == ParseHHMM(qh.start_time)
            end == ParseHHMM(qh.end_time)
        IN  /\ (qh.enabled /\ start.ok /\ end.ok)
                 => ( qh_result[1] <=>
                        /\ LocalWeekday(nt_clock) \in qh.days_of_week
                        /\ InQuietWindow(LocalTime(nt_clock), start.secs, end.secs) )
            /\ ( /\ qh.enabled /\ qh.days_of_week = 0..6
                 /\ start.ok /\ start.secs = 22 * 3600 /\ end.ok /\ end.secs = 8 * 3600 )
                 => /\ LocalTime(nt_clock) = 23 * 3600 => qh_result[1]
                    /\ LocalTime(nt_clock) = 9 * 3600 => ~qh_result[1]
            /\ ~qh.enabled => ~qh_result[1]

NotifyEffects == {nt_call.effects[i] : i \in 1..Len(nt_call.effects)}

\* C14: a show_notification call made while quiet hours apply, or while
\* the session enumeration returns no session, returns success, writes no
\* Notification record and invokes no display channel; and the quiet-hours
\* gate comes first: under quiet hours the sessions are not even enumerated.
C14_GatesSuppress ==
    [][ ( /\ nt_call' # nt_call
          /\ nt_call'.quiet \/ nt_call'.answers.sessions = "empty" )
        => /\ nt_call'.ok
           /\ nt_db' = nt_db
           /\ \A i \in 1..Len(nt_call'.effects) :
                 nt_call'.effects[i] \notin {"add_notification", "add_notification_failed",
                                            "tray", "toast"}
           /\ nt_call'.quiet
                 => \A i \in 1..Len(nt_call'.effects) :
                       nt_call'.effects[i] # "get_active_sessions" ]_vars

\* A call under quiet hours with a session present was suppressed and
\* stored nothing.
C14_Witness ==
    /\ nt_call.called /\ nt_call.quiet /\ nt_call.answers.sessions = "one"
    /\ nt_call.ok /\ nt_call.effects = <<"is_quiet_hours">>
    /\ nt_db = <<>>

\* C15: a show_notification call that reached the display channels returns
\* success for every notification type, whichever channels failed.
C15_ChannelFailuresAbsorbed ==
    (nt_call.called /\ "add_notification" \in NotifyEffects) => nt_call.ok

\* ========================================================================
\* Properties of run_service

\* C22: once the stop signal has cleared the running flag, no worker loop
\* (configuration refresh, detection, watchdog) starts a further cycle, and
\* when run_service returns every worker loop has exited.
C22_StopHaltsWorkers ==
    [][ /\ ~SERVICE_RUNNING
           => /\ sv_log' # sv_log => ~sv_log'.ran_body
              /\ wd_log' = wd_log
        /\ sv_main' = "returned"
           => /\ \A w \in Workers : sv_pc'[w] = "exited"
              /\ wd_pc' # "loop" ]_vars

\* ========================================================================
\* Properties of format_timespan and parse_timespan

\* C24: for every duration of a whole number of seconds, 0 included,
\* parse_timespan(format_timespan(d)) succeeds and equals d.
C24_RoundTrip ==
    IsSome(ts_text) => ts_parsed = Some([ok |-> TRUE, secs |-> ts_duration])

\* 1 h 30 min 15 s was formatted as "1h30m15s" and parsed back.
C24_Witness ==
    /\ ts_duration = 5415
    /\ ts_text = Some(<<"1", "h", "3", "0", "m", "1", "5", "s">>)
    /\ ts_parsed = Some([ok |-> TRUE, secs |-> 5415])

\* ========================================================================
\* Properties of the reminder branch of the detection loop

\* The reminder time held by the state the database returns, if any.
StoredReminder ==
    IF IsSome(db_state) THEN db_state[1].next_reminder_time ELSE None

\* The tiers of the table whose min is 0 hours.
ZeroMinTiers == {i \in 1..Len(timeframes) : timeframes[i].min_hours[1] = 0}

\* C27: every source handed to get_timeframe was created in the same cycle,
\* with detected_at the time of that cycle, so the hours elapsed used for
\* tier selection is 0 in every cycle, however long the reboot has been
\* outstanding; the tier chosen is the first tier whose min is 0, else the
\* last configured tier.
C27_AnchoredAtCycle ==
    (cycle.kind = "pass" /\ IsSome(cycle.tier)) =>
        /\ \A i \in 1..Len(cycle.evidence) :
              /\ cycle.evidence[i].detected_at >= cycle.at
              /\ cycle.evidence[i].detected_at <= cycle.at + MaxSkew
        /\ cycle.hours = 0
        /\ cycle.tier = IF ZeroMinTiers # {}
                        THEN Some(CHOOSE i \in ZeroMinTiers : \A j \in ZeroMinTiers : i <= j)
                        ELSE Some(Len(timeframes))

\* A reboot outstanding for 30 hours under the escalating table was given
\* the first tier (0 h to 24 h).
C27_Witness ==
    /\ cycle.kind = "pass" /\ cycle.saved /\ cycle.was_required
    /\ timeframes = TableEscalating
    /\ IsSome(db_state[1].reboot_required_since)
    /\ cycle.at - db_state[1].reboot_required_since[1] = 30 * 3600
    /\ cycle.hours = 0
    /\ cycle.tier = Some(1)

\* The hours the claim names: from the first tier's min timespan, else its
\* legacy min hours, else 24.
ClaimedCadenceHours ==
    LET tf == timeframes[1]
    IN  IF IsSome(tf.min_timespan) /\ parse_timespan(tf.min_timespan[1]).ok
        THEN parse_timespan(tf.min_timespan[1]).secs \div 3600
        ELSE IF IsSome(tf.min_hours) THEN tf.min_hours[1] ELSE 24

\* C28: the loop runs a detection pass only when at least the first tier's
\* min hours have elapsed since the previous completed pass or since the
\* loop started; between passes no state is written and no reminder is
\* surfaced, even if next_reminder_time has passed.
C28_Cadence ==
    [][ /\ cycle'.kind \in {"pass", "read_failed"}
           => now - last_check >= ClaimedCadenceHours * 3600
        /\ cycle'.kind = "pass" => (cycle'.at = now /\ last_check' = now)
        /\ cycle'.kind # "pass"
           => /\ last_check' = last_check
              /\ db_state' = db_state /\ db_sources' = db_sources
              /\ ~cycle'.notified ]_vars

\* An iteration 6 hours after a pass under a 24 hour cadence did nothing,
\* although the stored reminder time had passed.
C28_Witness ==
    /\ cycle.kind = "not_due"
    /\ IsSome(StoredReminder)
    /\ StoredReminder[1] <= cycle.at
    /\ db_state[1].reboot_required
    /\ cycle.at - last_check < ClaimedCadenceHours * 3600

\* show_notification is called in a cycle only if detection reports required
\* and the previously persisted next_reminder_time is absent or not later
\* than now.
GatedByStoredReminder ==
    (cycle'.kind = "pass" /\ cycle'.notified)
        => /\ cycle'.required
           /\ IsSome(StoredReminder) => StoredReminder[1] <= cycle'.at

\* C26 as stated: the gating above, and after a cycle that surfaces a
\* reminder and whose save succeeds, no later cycle surfaces a reminder
\* before that saved next_reminder_time.
C26_ReminderGating ==
    [][ /\ GatedByStoredReminder
        /\ (cycle'.kind = "pass" /\ cycle'.notified /\ IsSome(cycle.promised))
              => cycle'.at >= cycle.promised[1] ]_vars

\* C26 as amended: the gating above, and after a cycle that surfaces a
\* reminder and whose save succeeds, no later cycle surfaces a reminder
\* before that saved next_reminder_time while the stored state still holds
\* it (a pass that finds the reboot no longer required clears it).
C26_GatingWhileStored ==
    [][ /\ GatedByStoredReminder
        /\ ( /\ cycle'.kind = "pass" /\ cycle'.notified
             /\ IsSome(cycle.promised) /\ StoredReminder = cycle.promised )
              => cycle'.at >= cycle.promised[1] ]_vars

\* A pass found the reboot still required before the reminder time saved
\* by an earlier cycle, and called nothing.
C26_Witness ==
    /\ cycle.kind = "pass" /\ cycle.saved
    /\ cycle.was_required /\ cycle.required
    /\ ~cycle.notified /\ cycle.tier = None
    /\ IsSome(cycle.promised)
    /\ StoredReminder = cycle.promised
    /\ cycle.at < cycle.promised[1]

\* C29: in a cycle where a reminder is due and a tier is found,
\* next_reminder_time is advanced to now plus the interval whether or not
\* the notification was displayed: suppression, an error from
\* show_notification or a failure to lock the notification manager does not
\* leave the reminder due for the next cycle.
C29_AdvancedRegardless ==
    [][ ( /\ cycle'.kind = "pass" /\ IsSome(cycle'.tier) /\ cycle'.saved )
        => /\ db_state'[1].next_reminder_time
                 = Some(LoopNextReminderTime(timeframes[cycle'.tier[1]], cycle'.at))
           /\ db_state'[1].next_reminder_time[1] > cycle'.at ]_vars

\* A reminder was due, the tier was found, show_notification returned an
\* error, and the saved state carries a reminder time after the cycle.
C29_Witness ==
    /\ cycle.kind = "pass" /\ IsSome(cycle.tier) /\ cycle.saved
    /\ cycle.notified /\ cycle.shown = "error"
    /\ db_state[1].next_reminder_time[1] > cycle.at

====
